---- MODULE Spec2Model ----
(***************************************************************************)
(* Real-time chat of tf-backend: the socket.io connection handlers         *)
(* (src/src/socket/socketServer.js), the chat event handlers               *)
(* (src/src/app/modules/chat/chatSocketHandler.js, second definition of    *)
(* handleChatEvents, lines 287-704) and the meeting-history message        *)
(* written by createMeeting (src/src/app/modules/meeting/                  *)
(* meetingController.js).                                                  *)
(*                                                                         *)
(* Every async handler is a task that advances one step per await: a step  *)
(* is the effect of the awaited store call followed by the synchronous     *)
(* code up to the next await.  Reads of the conversation row's immutable   *)
(* columns are folded into the step that uses them.  Steps of different    *)
(* tasks interleave freely, as do connects and disconnects.                *)
(* The handlers in flight form a bag of task records.                      *)
(***************************************************************************)
EXTENDS Integers, Sequences, FiniteSets, TLC

\* ------------------------------------------------------------------ bounds
MaxMsgs == 1
MaxSends == 2
MaxTasks == 2
MaxSocketsPerUser == 1
MaxSessions == 2
MaxNow == 2

\* --------------------------------------------------------- program constants
PreviewLen == 255

Null == 0

Recruiter == 1
Talent == 2
Outsider == 3
Users == {Recruiter, Talent, Outsider}

\* table user: the three chat users are active, one account is deactivated
\* and id UnknownUser has no row
InactiveUser == 5
UnknownUser == 4
UserTable == [u \in Users \cup {InactiveUser} |-> [is_active |-> u # InactiveUser]]

\* ------------------------------------------------------------- JS values
\* A payload field is undefined, a number or a string (a sequence of
\* one-character strings).
Undef == [k |-> "undef", n |-> 0, s |-> <<>>]
Num(i) == [k |-> "num", n |-> i, s |-> <<>>]
Str(cs) == [k |-> "str", n |-> 0, s |-> cs]

Digits == <<"0", "1", "2", "3", "4", "5", "6", "7", "8", "9">>
IsDigit(c) == \E i \in 1..10 : Digits[i] = c
DigitVal(c) == (CHOOSE i \in 1..10 : Digits[i] = c) - 1

RECURSIVE IntToStr(_)
IntToStr(i) == IF i < 10 THEN <<Digits[i + 1]>>
               ELSE IntToStr(i \div 10) \o <<Digits[(i % 10) + 1]>>

\* String(v), as a template literal `${v}` renders it
ToStr(v) == CASE v.k = "num" -> IntToStr(v.n)
              [] v.k = "str" -> v.s
              [] OTHER -> <<"u", "n", "d", "e", "f", "i", "n", "e", "d">>

\* !v
Falsy(v) == \/ v.k = "undef"
            \/ v.k = "num" /\ v.n = 0
            \/ v.k = "str" /\ v.s = <<>>

RECURSIVE TrimLeft(_)
TrimLeft(cs) == IF cs # <<>> /\ Head(cs) = " " THEN TrimLeft(Tail(cs)) ELSE cs

RECURSIVE TrimRight(_)
TrimRight(cs) == IF cs # <<>> /\ cs[Len(cs)] = " "
                 THEN TrimRight(SubSeq(cs, 1, Len(cs) - 1)) ELSE cs

\* String.prototype.trim
Trim(cs) == TrimRight(TrimLeft(cs))

\* String.prototype.substring(0, n)
Substring(cs, n) == SubSeq(cs, 1, IF Len(cs) < n THEN Len(cs) ELSE n)

RECURSIVE DigitPrefix(_)
DigitPrefix(cs) == IF cs # <<>> /\ IsDigit(Head(cs))
                   THEN <<Head(cs)>> \o DigitPrefix(Tail(cs)) ELSE <<>>

RECURSIVE DigitsToInt(_)
DigitsToInt(ds) == IF ds = <<>> THEN 0
                   ELSE 10 * DigitsToInt(SubSeq(ds, 1, Len(ds) - 1))
                        + DigitVal(ds[Len(ds)])

NaN == -1

\* parseInt(v): leading white space skipped, then the longest digit prefix;
\* NaN when there is none (the payloads drawn here carry no sign)
ParseInt(v) == LET ds == DigitPrefix(TrimLeft(ToStr(v)))
               IN IF ds = <<>> THEN NaN ELSE DigitsToInt(ds)

\* socket slot s carries socket.user.user_id = Owner(s), set by the handshake;
\* slot InactiveSlot is the connection the deactivated account asks for
Sockets == 1..(3 * MaxSocketsPerUser)
InactiveSlot == 0
Owner(s) == IF s = InactiveSlot THEN InactiveUser ELSE ((s - 1) % 3) + 1

\* room names
UserRoom(u) == <<"user", IntToStr(u)>>
ConvRoom(key) == <<"conversation", key>>

\* ------------------------------------------------------------------ inputs
ConvPayloads == {Undef, Num(1), Str(<<"1", "x">>), Str(<<"x">>)}
BodyPayloads == {Str(<<" ">>), Str(<<" ", "a">>)}

VARIABLES
  now,        \* the wall clock read by new Date()
  connected,  \* ids of the sockets of the namespace (nsp.sockets)
  rooms,      \* adapter rooms: pairs <<socket id, room name>>
  convs,      \* table chat_conversation
  messages,   \* table chat_message, keyed by cm_id (committed rows)
  tasks,      \* the handlers in flight
  emitted     \* what the last step wrote out: socket events, log lines,
              \* rows inserted into table notification, outbound mails

vars == <<now, connected, rooms, convs, messages, tasks, emitted>>

\* ------------------------------------------------------------------ helpers
HasFree == Cardinality(tasks) < MaxTasks

NewTask(kind, pc, s, u, c, b, ts) ==
  [kind |-> kind, pc |-> pc, sock |-> s, user |-> u, conv |-> c, body |-> b,
   ts |-> ts, cm_id |-> 0, sel |-> {}, k |-> 1]

\* handlers in the very same state are told apart by k = 1, 2, ...
Twins(T, S) == {U \in S : [U EXCEPT !.k = 1] = [T EXCEPT !.k = 1]}
Add(S, T) == S \cup {[T EXCEPT !.k = Cardinality(Twins(T, S)) + 1]}
Remove(S, T) ==
  {[U EXCEPT !.k = Cardinality({V \in Twins(U, S \ {T}) : V.k <= U.k})] : U \in S \ {T}}

\* a handler starts, moves to its next await, or returns
Start(T) == HasFree /\ tasks' = Add(tasks, T)
Move(T, T2) == tasks' = Add(Remove(tasks, T), T2)
Return(T) == tasks' = Remove(tasks, T)
At(T, kind, pc) == T \in tasks /\ T.kind = kind /\ T.pc = pc

\* an emitted event: its name, the sockets it is written to, and its payload
\* (the user it is about, the conversation, the message, its delivered flag)
Event(ev, to, u, c, id, d) ==
  [ev |-> ev, to |-> to, user |-> u, conv |-> c, cm_id |-> id, delivered |-> d]

\* console.error
LogError == Event("log_error", {}, 0, 0, 0, FALSE)

\* a row inserted into table notification for user u, for message id
NotificationRow(u, name, id) == Event(name, {}, u, 0, id, FALSE)

\* an attempt to mail user u about message id
MailAttempt(u, kind, id) == Event(kind, {}, u, 0, id, FALSE)

\* socket.emit(ev, ...): a closed socket discards the packet
ToSocket(s) == IF s \in connected THEN {s} ELSE {}

\* the sockets a broadcast to a room reaches, and fetchSockets() of a room:
\* the adapter looks every id of the room up in nsp.sockets
InRoom(r) == {s \in connected : <<s, r>> \in rooms}

\* socket.emit('error', ...) next to its console.error
ErrorTo(s) == {Event("error", ToSocket(s), 0, 0, 0, FALSE), LogError}

\* mutant: the lookup filters on the conversation id only
IsParticipantAnyone(c, u) == c \in DOMAIN convs

\* where: { cc_id, OR: [recruiter_user_id, talent_user_id] (, status: true) }
IsParticipant(c, u) ==
  /\ c \in DOMAIN convs
  /\ convs[c].recruiter_user_id = u \/ convs[c].talent_user_id = u

\* conversation.recruiter_user_id === socket.user.user_id ? talent : recruiter
OtherUser(c, u) == IF convs[c].recruiter_user_id = u
                   THEN convs[c].talent_user_id
                   ELSE convs[c].recruiter_user_id

\* conversation 1 is active, conversation 2 is soft-disabled
Init ==
  /\ now = 1
  /\ connected = {}
  /\ rooms = {}
  /\ convs = [c \in {1, 2} |->
               [recruiter_user_id |-> Recruiter, talent_user_id |-> Talent,
                status |-> (c = 1), cc_last_message |-> <<>>,
                cc_unread_count_recruiter |-> 0, cc_unread_count_talent |-> 0]]
  /\ messages = <<>>
  /\ tasks = {}
  /\ emitted = {}

\* ------------------------------------------------------- connection handlers
\* io.on('connection'): personal room, user_online to every other socket.
\* Socket ids are never reused: slot s hosts a new socket only when no handler
\* of the previous one is still in flight, and what the adapter still holds
\* under the previous id is out of the new socket's reach.
Connect(s) ==
  /\ s \notin connected
  /\ \A T \in tasks : T.sock # s
  /\ connected' = connected \cup {s}
  /\ rooms' = {m \in rooms : m[1] # s} \cup {<<s, UserRoom(Owner(s))>>}
  /\ emitted' = {Event("user_online", connected, Owner(s), 0, 0, FALSE)}
  /\ UNCHANGED <<now, convs, messages, tasks>>

\* the credential of a handshake: none, a token that jwt.verify refuses, or
\* a signed token with its user_id
NoToken == [k |-> "none", user_id |-> 0]
BadToken == [k |-> "bad", user_id |-> 0]
TokenOf(u) == [k |-> "jwt", user_id |-> u]

\* mutant: the is_active column is not looked at
IsValidUserAnyRow(u) == u \in DOMAIN UserTable

\* !(!user || !user.is_active)
IsValidUser(u) == u \in DOMAIN UserTable /\ UserTable[u].is_active

\* next(new Error('Authentication error...')): the connection is refused,
\* the client gets connect_error; the catch block logs as well
Rejected(logged) ==
  {Event("connect_error", {}, 0, 0, 0, FALSE)} \cup (IF logged THEN {LogError} ELSE {})

\* verifySocketToken, then the connection handler: the handshake of slot s
\* with credential tok; ok tells whether user.findUnique answers.  The
\* socket exists in the namespace only once next() was called without error.
Handshake(s, tok, ok) ==
  /\ s \notin connected
  /\ IF tok.k = "none" THEN
       /\ emitted' = Rejected(FALSE)
       /\ UNCHANGED <<now, connected, rooms, convs, messages, tasks>>
     ELSE IF tok.k = "bad" \/ ~ok THEN
       /\ emitted' = Rejected(TRUE)
       /\ UNCHANGED <<now, connected, rooms, convs, messages, tasks>>
     ELSE IF ~IsValidUser(tok.user_id) THEN
       /\ emitted' = Rejected(FALSE)
       /\ UNCHANGED <<now, connected, rooms, convs, messages, tasks>>
     ELSE
       /\ tok.user_id = Owner(s)
       /\ Connect(s)

\* socket.on('disconnect'): the library has already removed the socket from
\* the namespace and from all its rooms; user_offline to every other socket
Disconnect(s) ==
  /\ s \in connected
  /\ connected' = connected \ {s}
  /\ rooms' = {m \in rooms : m[1] # s}
  /\ emitted' = {Event("user_offline", connected \ {s}, Owner(s), 0, 0, FALSE)}
  /\ UNCHANGED <<now, convs, messages, tasks>>

\* socket.on('leave_conversation'): the room name is built from the raw payload
LeaveConversation(s, p) ==
  /\ s \in connected
  /\ rooms' = rooms \ {<<s, ConvRoom(ToStr(p))>>}
  /\ emitted' = {}
  /\ UNCHANGED <<now, connected, convs, messages, tasks>>

\* the userIds field of a payload: an array, or something else
Arr(xs) == [isArray |-> TRUE, items |-> xs]
NotArray == [isArray |-> FALSE, items |-> <<>>]

\* mutant: presence is answered from the whole namespace
StatusOfAnyone(p) == [userId |-> p, isOnline |-> connected # {}]

\* { userId, isOnline: userSockets.length > 0 } with userSockets the sockets
\* fetched from the room `user:${userId}`
StatusOf(p) == [userId |-> p, isOnline |-> InRoom(<<"user", ToStr(p)>>) # {}]

\* socket.on('check_user_status'): nothing without a userId, else
\* user_status_response to the calling socket
CheckUserStatus(s, p) ==
  /\ s \in connected
  /\ emitted' = IF Falsy(p) THEN {}
                ELSE {[ev |-> "user_status_response", to |-> ToSocket(s),
                       status |-> StatusOf(p)]}
  /\ UNCHANGED <<now, connected, rooms, convs, messages, tasks>>

\* socket.on('check_multiple_users_status'): nothing unless userIds is an
\* array, else one status per element, in the order of the array, to the
\* calling socket
CheckMultipleUsersStatus(s, ps) ==
  /\ s \in connected
  /\ emitted' = IF ~ps.isArray THEN {}
                ELSE {[ev |-> "multiple_users_status_response", to |-> ToSocket(s),
                       statuses |-> [i \in DOMAIN ps.items |-> StatusOf(ps.items[i])]]}
  /\ UNCHANGED <<now, connected, rooms, convs, messages, tasks>>

\* socket.on('typing') and socket.on('stop_typing'): ev to the sockets of
\* the room named by the raw payload, the calling socket excepted
Typing(s, p, ev) ==
  /\ s \in connected
  /\ emitted' = {[ev |-> ev, to |-> InRoom(ConvRoom(ToStr(p))) \ {s},
                  userId |-> Owner(s), conversationId |-> p]}
  /\ UNCHANGED <<now, connected, rooms, convs, messages, tasks>>

\* --------------------------------------------------------------- the store
\* rows written by a mark_as_read transaction that has not committed yet are
\* locked against other writers
LockedBut(T) == UNION {U.sel : U \in tasks \ {T}}

\* chat_message.create({ cc_id, sender_user_id, cm_message, cm_message_type })
\* of send_message: the status columns take their defaults
NewMessage(c, u, b) ==
  [cc_id |-> c, sender_user_id |-> u, cm_message |-> b, cm_message_type |-> "Text",
   cm_is_delivered |-> FALSE, cm_delivered_at |-> Null,
   cm_is_read |-> FALSE, cm_read_at |-> Null]

\* mutant: the update writes the whole status back to "delivered, not read"
DeliveredDataResetsRead(m, ts) ==
  [m EXCEPT !.cm_is_delivered = TRUE, !.cm_delivered_at = ts,
            !.cm_is_read = FALSE, !.cm_read_at = Null]

\* data: { cm_is_delivered: true, cm_delivered_at: new Date() }
DeliveredData(m, ts) ==
  [m EXCEPT !.cm_is_delivered = TRUE, !.cm_delivered_at = ts]

\* mutant: mark_as_read writes the read columns only
ReadDataOnlyRead(m, ts) ==
  [m EXCEPT !.cm_is_read = TRUE, !.cm_read_at = ts]

\* data: { cm_is_delivered: true, cm_delivered_at, cm_is_read: true, cm_read_at }
ReadData(m, ts) ==
  [m EXCEPT !.cm_is_delivered = TRUE, !.cm_delivered_at = ts,
            !.cm_is_read = TRUE, !.cm_read_at = ts]

\* mutant: the filter on the sender is missing
UndeliveredOfAnyone(c, u) ==
  {i \in DOMAIN messages : messages[i].cc_id = c /\ ~messages[i].cm_is_delivered}

\* where: { cc_id, sender_user_id: { not: user }, cm_is_delivered: false }
Undelivered(c, u) ==
  {i \in DOMAIN messages : /\ messages[i].cc_id = c
                           /\ messages[i].sender_user_id # u
                           /\ ~messages[i].cm_is_delivered}

\* mutant: the filter on the sender is missing
UnreadOfAnyone(c, u) ==
  {i \in DOMAIN messages : messages[i].cc_id = c /\ ~messages[i].cm_is_read}

\* where: { cc_id, sender_user_id: { not: user }, cm_is_read: false }
Unread(c, u) ==
  {i \in DOMAIN messages : /\ messages[i].cc_id = c
                           /\ messages[i].sender_user_id # u
                           /\ ~messages[i].cm_is_read}

\* mutant: the bulk update writes the read columns too
MarkDeliveredAsRead(c, u, ts) ==
  [i \in DOMAIN messages |->
     IF i \in Undelivered(c, u) THEN ReadData(messages[i], ts) ELSE messages[i]]

\* chat_message.updateMany marking the undelivered messages of the others
MarkDelivered(c, u, ts) ==
  [i \in DOMAIN messages |->
     IF i \in Undelivered(c, u) THEN DeliveredData(messages[i], ts) ELSE messages[i]]

\* mutant: the counter is written, not incremented
IncrementOverwrites(n) == 1

\* { increment: 1 }
Increment(n) == n + 1

\* chat_conversation.update of send_message: preview and the unread counter
\* of the side that is not the sender
ConvAfterSend(cv, u, b) ==
  IF cv.recruiter_user_id = u
  THEN [cv EXCEPT !.cc_last_message = Substring(b, PreviewLen),
                  !.cc_unread_count_talent = Increment(@)]
  ELSE [cv EXCEPT !.cc_last_message = Substring(b, PreviewLen),
                  !.cc_unread_count_recruiter = Increment(@)]

\* mutant: the counter of the other side is reset
ConvAfterReadOtherSide(cv, u) ==
  IF cv.recruiter_user_id = u
  THEN [cv EXCEPT !.cc_unread_count_talent = 0]
  ELSE [cv EXCEPT !.cc_unread_count_recruiter = 0]

\* chat_conversation.update of mark_as_read: the reader's own counter
ConvAfterRead(cv, u) ==
  IF cv.recruiter_user_id = u
  THEN [cv EXCEPT !.cc_unread_count_recruiter = 0]
  ELSE [cv EXCEPT !.cc_unread_count_talent = 0]

\* ----------------------------------------------------------- join_conversation
\* validation of the payload, then findFirst is awaited
JoinStart(s, p) ==
  /\ s \in connected
  /\ IF Falsy(p) \/ ParseInt(p) = NaN
     THEN /\ emitted' = ErrorTo(s)
          /\ tasks' = tasks
     ELSE /\ emitted' = {}
          /\ Start(NewTask("join", "j_find", s, Owner(s), ParseInt(p), <<>>, Null))
  /\ UNCHANGED <<now, connected, rooms, convs, messages>>

\* socket.join(`conversation:${parsedConversationId}`): the adapter adds the
\* socket id to the room, whether or not the socket is still open
JoinedRoom(s, c) == <<s, ConvRoom(IntToStr(c))>>

\* findFirst resolved: socket.join, then updateMany is awaited
JoinFind(T, ok) ==
  /\ At(T, "join", "j_find")
  /\ IF ok /\ IsParticipant(T.conv, T.user) /\ convs[T.conv].status
     THEN /\ rooms' = rooms \cup {JoinedRoom(T.sock, T.conv)}
          /\ Move(T, [T EXCEPT !.pc = "j_upd", !.ts = now])
          /\ emitted' = {}
     ELSE /\ rooms' = rooms
          /\ Return(T)
          /\ emitted' = ErrorTo(T.sock)
  /\ UNCHANGED <<now, connected, convs, messages>>

\* the catch-up updateMany takes effect, or throws into the handler's catch
JoinUpdate(T, ok) ==
  /\ At(T, "join", "j_upd")
  /\ IF ok
     THEN /\ Undelivered(T.conv, T.user) \cap LockedBut(T) = {}
          /\ messages' = MarkDelivered(T.conv, T.user, T.ts)
          /\ Move(T, [T EXCEPT !.pc = "j_fin", !.ts = Null])
          /\ emitted' = {}
     ELSE /\ messages' = messages
          /\ Return(T)
          /\ emitted' = ErrorTo(T.sock)
  /\ UNCHANGED <<now, connected, rooms, convs>>

\* joined_conversation to the caller, messages_delivered to the other user
JoinFinish(T) ==
  /\ At(T, "join", "j_fin")
  /\ emitted' = {Event("joined_conversation", ToSocket(T.sock), T.user, T.conv, 0, FALSE),
                 Event("messages_delivered",
                       InRoom(UserRoom(OtherUser(T.conv, T.user))), T.user, T.conv, 0, FALSE)}
  /\ Return(T)
  /\ UNCHANGED <<now, connected, rooms, convs, messages>>

\* --------------------------------------------------------------- send_message
\* mutant: the presence check never finds a socket
IsUserOnlineNever(u) == FALSE

\* isUserOnline(io, userId): fetchSockets of the personal room
IsUserOnline(u) == InRoom(UserRoom(u)) # {}

\* mutant: the room check looks at the personal room
IsRecipientAnywhere(c, u) == IsUserOnline(u)

\* recipientSockets.some(s => s.user.user_id === recipientUserId)
IsRecipientInRoom(c, u) ==
  \E s \in InRoom(ConvRoom(IntToStr(c))) : Owner(s) = u

\* io.to(conversation room).emit('new_message'), then
\* io.to(recipient's personal room).emit('message_notification')
FanOut(T, d) ==
  {Event("new_message", InRoom(ConvRoom(IntToStr(T.conv))), T.user, T.conv, T.cm_id, d),
   Event("message_notification", InRoom(UserRoom(OtherUser(T.conv, T.user))),
         T.user, T.conv, T.cm_id, FALSE)}

\* mutant: the fallback's failure reaches the handler's catch
FallbackFailureRethrows(s) == ErrorTo(s)

\* the catch of the offline fallback's own try block: a log line
FallbackFailure(s) == {LogError}

\* mutant: the condition of the fallback is inverted
NeedsFallbackInverted(u) == IsUserOnline(u)

\* after the fan-out the offline fallback is entered when the recipient has
\* no socket at all
NeedsFallback(u) == ~IsUserOnline(u)

\* validation, findFirst and the trim; the transaction is then awaited
SendStart(s, p, b, ok) ==
  /\ s \in connected
  /\ IF \/ Falsy(p)
        \/ Falsy(b) \/ b.k # "str" \/ Trim(b.s) = <<>>
        \/ ParseInt(p) = NaN
        \/ ~ok
        \/ ~(IsParticipant(ParseInt(p), Owner(s)) /\ convs[ParseInt(p)].status)
     THEN /\ emitted' = ErrorTo(s)
          /\ tasks' = tasks
     ELSE /\ emitted' = {}
          /\ Start(NewTask("send", "s_tx", s, Owner(s), ParseInt(p), Trim(b.s), Null))
  /\ UNCHANGED <<now, connected, rooms, convs, messages>>

\* mutant: the insert is not part of the transaction and survives its failure
SendCommitPartial(T, ok) ==
  /\ At(T, "send", "s_tx")
  /\ messages' = Append(messages, NewMessage(T.conv, T.user, T.body))
  /\ IF ok
     THEN /\ convs' = [convs EXCEPT ![T.conv] = ConvAfterSend(@, T.user, T.body)]
          /\ Move(T, [T EXCEPT !.pc = "s_check", !.cm_id = Len(messages) + 1])
          /\ emitted' = {}
     ELSE /\ convs' = convs
          /\ Return(T)
          /\ emitted' = ErrorTo(T.sock)
  /\ UNCHANGED <<now, connected, rooms>>

\* the transaction: chat_message.create and chat_conversation.update become
\* visible together at the commit, or not at all
SendCommit(T, ok) ==
  /\ At(T, "send", "s_tx")
  /\ IF ok
     THEN /\ messages' = Append(messages, NewMessage(T.conv, T.user, T.body))
          /\ convs' = [convs EXCEPT ![T.conv] = ConvAfterSend(@, T.user, T.body)]
          /\ Move(T, [T EXCEPT !.pc = "s_check", !.cm_id = Len(messages) + 1])
          /\ emitted' = {}
     ELSE /\ messages' = messages
          /\ convs' = convs
          /\ Return(T)
          /\ emitted' = ErrorTo(T.sock)
  /\ UNCHANGED <<now, connected, rooms>>

\* mutant: the presence check and the fallback come first, the fan-out is
\* left for later
EmitAfterFallback(T, d) ==
  /\ emitted' = {}
  /\ IF NeedsFallback(OtherUser(T.conv, T.user))
     THEN Move(T, [T EXCEPT !.pc = "s_notify", !.ts = Null])
     ELSE Return(T)

\* the fan-out and the check of global presence that follows it
EmitAndCheck(T, d) ==
  /\ emitted' = FanOut(T, d)
  /\ IF NeedsFallback(OtherUser(T.conv, T.user))
     THEN Move(T, [T EXCEPT !.pc = "s_notify", !.ts = Null])
     ELSE Return(T)

\* the transaction resolved: presence in the conversation room; either the
\* delivered update is awaited, or the message goes out as created
SendCheck(T) ==
  /\ At(T, "send", "s_check")
  /\ IF IsRecipientInRoom(T.conv, OtherUser(T.conv, T.user))
     THEN /\ Move(T, [T EXCEPT !.pc = "s_deliver", !.ts = now])
          /\ emitted' = {}
     ELSE EmitAndCheck(T, NewMessage(T.conv, T.user, T.body).cm_is_delivered)
  /\ UNCHANGED <<now, connected, rooms, convs, messages>>

\* chat_message.update({ cm_id }) takes effect, or throws into the catch
SendDeliver(T, ok) ==
  /\ At(T, "send", "s_deliver")
  /\ IF ok
     THEN /\ T.cm_id \notin LockedBut(T)
          /\ messages' = [messages EXCEPT ![T.cm_id] = DeliveredData(@, T.ts)]
          /\ Move(T, [T EXCEPT !.pc = "s_emit"])
          /\ emitted' = {}
     ELSE /\ messages' = messages
          /\ Return(T)
          /\ emitted' = ErrorTo(T.sock)
  /\ UNCHANGED <<now, connected, rooms, convs>>

\* the update resolved: the message goes out as the update returned it
SendEmit(T) ==
  /\ At(T, "send", "s_emit")
  /\ EmitAndCheck(T, DeliveredData(messages[T.cm_id], T.ts).cm_is_delivered)
  /\ UNCHANGED <<now, connected, rooms, convs, messages>>

\* createNotification(recipient, 'new_chat_message', ...)
SendNotify(T, ok) ==
  /\ At(T, "send", "s_notify")
  /\ IF ok
     THEN /\ Move(T, [T EXCEPT !.pc = "s_email"])
          /\ emitted' = {NotificationRow(OtherUser(T.conv, T.user),
                                         "new_chat_message", T.cm_id)}
     ELSE /\ Return(T)
          /\ emitted' = FallbackFailure(T.sock)
  /\ UNCHANGED <<now, connected, rooms, convs, messages>>

\* user.findUnique of the recipient, then sendChatMessageEmail
SendEmail(T, r) ==
  /\ At(T, "send", "s_email")
  /\ emitted' = (IF r = "lookup_failed" THEN {}
                 ELSE {MailAttempt(OtherUser(T.conv, T.user), "chat_email", T.cm_id)})
                \cup (IF r = "sent" THEN {} ELSE FallbackFailure(T.sock))
  /\ Return(T)
  /\ UNCHANGED <<now, connected, rooms, convs, messages>>

\* ----------------------------------------------------------- mark_as_delivered
\* validation and findFirst (no status filter); a caller that is not a
\* participant gets a log line only
DeliveredStart(s, p, ok) ==
  /\ s \in connected
  /\ IF Falsy(p) \/ ParseInt(p) = NaN \/ ~ok
     THEN emitted' = ErrorTo(s) /\ tasks' = tasks
     ELSE IF ~IsParticipant(ParseInt(p), Owner(s))
     THEN emitted' = {LogError} /\ tasks' = tasks
     ELSE /\ emitted' = {}
          /\ Start(NewTask("delivered", "d_upd", s, Owner(s), ParseInt(p), <<>>, now))
  /\ UNCHANGED <<now, connected, rooms, convs, messages>>

\* updateMany takes effect, or throws into the handler's catch
DeliveredUpdate(T, ok) ==
  /\ At(T, "delivered", "d_upd")
  /\ IF ok
     THEN /\ Undelivered(T.conv, T.user) \cap LockedBut(T) = {}
          /\ messages' = MarkDelivered(T.conv, T.user, T.ts)
          /\ Move(T, [T EXCEPT !.pc = "d_fin", !.ts = Null])
          /\ emitted' = {}
     ELSE /\ messages' = messages
          /\ Return(T)
          /\ emitted' = ErrorTo(T.sock)
  /\ UNCHANGED <<now, connected, rooms, convs>>

\* messages_marked_delivered to the caller, messages_delivered to the other user
DeliveredFinish(T) ==
  /\ At(T, "delivered", "d_fin")
  /\ emitted' = {Event("messages_marked_delivered", ToSocket(T.sock), T.user, T.conv, 0, FALSE),
                 Event("messages_delivered",
                       InRoom(UserRoom(OtherUser(T.conv, T.user))), T.user, T.conv, 0, FALSE)}
  /\ Return(T)
  /\ UNCHANGED <<now, connected, rooms, convs, messages>>

\* ---------------------------------------------------------------- mark_as_read
ReadStart(s, p, ok) ==
  /\ s \in connected
  /\ IF Falsy(p) \/ ParseInt(p) = NaN \/ ~ok
     THEN emitted' = ErrorTo(s) /\ tasks' = tasks
     ELSE IF ~IsParticipant(ParseInt(p), Owner(s))
     THEN emitted' = {LogError} /\ tasks' = tasks
     ELSE /\ emitted' = {}
          /\ Start(NewTask("read", "r_sel", s, Owner(s), ParseInt(p), <<>>, now))
  /\ UNCHANGED <<now, connected, rooms, convs, messages>>

\* tx.chat_message.updateMany: the unread rows of the others are written and
\* stay locked until the commit
ReadSelect(T, ok) ==
  /\ At(T, "read", "r_sel")
  /\ IF ok
     THEN /\ Unread(T.conv, T.user) \cap LockedBut(T) = {}
          /\ Move(T, [T EXCEPT !.pc = "r_commit", !.sel = Unread(T.conv, T.user)])
          /\ emitted' = {}
     ELSE /\ Return(T)
          /\ emitted' = ErrorTo(T.sock)
  /\ UNCHANGED <<now, connected, rooms, convs, messages>>

\* tx.chat_conversation.update and the commit, or the rollback
ReadCommit(T, ok) ==
  /\ At(T, "read", "r_commit")
  /\ IF ok
     THEN /\ messages' = [i \in DOMAIN messages |->
                            IF i \in T.sel THEN ReadData(messages[i], T.ts)
                            ELSE messages[i]]
          /\ convs' = [convs EXCEPT ![T.conv] = ConvAfterRead(@, T.user)]
          /\ Move(T, [T EXCEPT !.pc = "r_fin", !.sel = {}, !.ts = Null])
          /\ emitted' = {}
     ELSE /\ messages' = messages
          /\ convs' = convs
          /\ Return(T)
          /\ emitted' = ErrorTo(T.sock)
  /\ UNCHANGED <<now, connected, rooms>>

\* messages_marked_read to the caller, messages_read to the other user
ReadFinish(T) ==
  /\ At(T, "read", "r_fin")
  /\ emitted' = {Event("messages_marked_read", ToSocket(T.sock), T.user, T.conv, 0, FALSE),
                 Event("messages_read",
                       InRoom(UserRoom(OtherUser(T.conv, T.user))), T.user, T.conv, 0, FALSE)}
  /\ Return(T)
  /\ UNCHANGED <<now, connected, rooms, convs, messages>>

\* --------------------------------------------------------------- createMeeting
MeetingBody == <<"M">>
MeetingPreview == <<"m">>

\* the meeting-history row: created delivered, by the host
MeetingMessage(c, u) ==
  [cc_id |-> c, sender_user_id |-> u, cm_message |-> MeetingBody,
   cm_message_type |-> "Meeting",
   cm_is_delivered |-> TRUE, cm_delivered_at |-> now,
   cm_is_read |-> FALSE, cm_read_at |-> Null]

\* chat_conversation.update of createMeeting: the preview and its time only
ConvAfterMeeting(cv, u) == [cv EXCEPT !.cc_last_message = MeetingPreview]

\* the participant added from the conversation, 0 when the host is not in it
OtherParticipant(c, host) ==
  IF IsParticipant(c, host) /\ OtherUser(c, host) # host
  THEN OtherUser(c, host) ELSE 0

\* POST /api/meeting/create with a conversationId: the transaction writes the
\* meeting, the history message and the preview, or rolls back
CreateMeeting(host, p, ok) ==
  /\ LET c == ParseInt(p) IN
     IF ok /\ c \in DOMAIN convs
     THEN /\ messages' = Append(messages, MeetingMessage(c, host))
          /\ convs' = [convs EXCEPT ![c] = ConvAfterMeeting(@, host)]
          /\ IF OtherParticipant(c, host) = 0 THEN tasks' = tasks
             ELSE Start([NewTask("meeting", "m_notify", 0, host, c, <<>>, Null)
                           EXCEPT !.cm_id = Len(messages) + 1])
          /\ emitted' = {}
     ELSE /\ UNCHANGED <<messages, convs, tasks>>
          /\ emitted' = {LogError}
  /\ UNCHANGED <<now, connected, rooms>>

\* the invitation of the other participant: user lookup, createNotification,
\* meeting_invitation to the personal room, sendNotificationEmail; a failure
\* is logged and skips the rest
MeetingNotify(T, r) ==
  /\ At(T, "meeting", "m_notify")
  /\ LET u == OtherParticipant(T.conv, T.user)
         early == r \in {"lookup_failed", "notify_failed"} IN
       emitted' =
            (IF early THEN {}
             ELSE {NotificationRow(u, "meeting_invitation", T.cm_id),
                   Event("meeting_invitation_event", InRoom(UserRoom(u)),
                         T.user, T.conv, T.cm_id, FALSE),
                   MailAttempt(u, "meeting_email", T.cm_id)})
            \cup (IF r = "sent" THEN {} ELSE {LogError})
  /\ Return(T)
  /\ UNCHANGED <<now, connected, rooms, convs, messages>>

\* ------------------------------------------------------------ specification
Participants == {Recruiter, Talent}
ParticipantSockets == {s \in Sockets : Owner(s) \in Participants}
MeetingPayloads == {Num(1)}
EmailOutcomes == {"lookup_failed", "sent", "send_failed"}
InviteOutcomes == {"lookup_failed", "notify_failed", "sent", "send_failed"}

\* the chat_message table holds at most n rows: a write is admitted only
\* while the rows and the transactions about to insert one stay below n
CanWrite(n) ==
  Len(messages) + Cardinality({T \in tasks : T.kind = "send" /\ T.pc = "s_tx"}) < n

Next ==
  \/ \E s \in ParticipantSockets : Connect(s)
  \/ \E s \in connected : Disconnect(s)
  \/ \E s \in connected, p \in ConvPayloads : LeaveConversation(s, p)
  \/ \E s \in connected, p \in ConvPayloads : JoinStart(s, p)
  \/ \E T \in tasks, ok \in BOOLEAN : JoinFind(T, ok)
  \/ \E T \in tasks, ok \in BOOLEAN : JoinUpdate(T, ok)
  \/ \E T \in tasks : JoinFinish(T)
  \/ /\ CanWrite(MaxMsgs)
     /\ \E s \in connected, p \in ConvPayloads, b \in BodyPayloads, ok \in BOOLEAN :
          SendStart(s, p, b, ok)
  \/ \E T \in tasks, ok \in BOOLEAN : SendCommit(T, ok)
  \/ \E T \in tasks : SendCheck(T)
  \/ \E T \in tasks, ok \in BOOLEAN : SendDeliver(T, ok)
  \/ \E T \in tasks : SendEmit(T)
  \/ \E T \in tasks, ok \in BOOLEAN : SendNotify(T, ok)
  \/ \E T \in tasks, r \in EmailOutcomes : SendEmail(T, r)
  \/ \E s \in connected, p \in ConvPayloads, ok \in BOOLEAN : DeliveredStart(s, p, ok)
  \/ \E T \in tasks, ok \in BOOLEAN : DeliveredUpdate(T, ok)
  \/ \E T \in tasks : DeliveredFinish(T)
  \/ \E s \in connected, p \in ConvPayloads, ok \in BOOLEAN : ReadStart(s, p, ok)
  \/ \E T \in tasks, ok \in BOOLEAN : ReadSelect(T, ok)
  \/ \E T \in tasks, ok \in BOOLEAN : ReadCommit(T, ok)
  \/ \E T \in tasks : ReadFinish(T)
  \/ /\ CanWrite(MaxMsgs)
     /\ \E host \in Participants, p \in MeetingPayloads, ok \in BOOLEAN :
          CreateMeeting(host, p, ok)
  \/ \E T \in tasks, r \in InviteOutcomes : MeetingNotify(T, r)

Spec == Init /\ [][Next]_vars

\* concurrent sends only: sockets come and go, join, leave and send
NextSends ==
  \/ \E s \in ParticipantSockets : Connect(s)
  \/ \E s \in connected : Disconnect(s)
  \/ \E s \in connected, p \in ConvPayloads : LeaveConversation(s, p)
  \/ \E s \in connected, p \in ConvPayloads : JoinStart(s, p)
  \/ \E T \in tasks, ok \in BOOLEAN : JoinFind(T, ok)
  \/ \E T \in tasks, ok \in BOOLEAN : JoinUpdate(T, ok)
  \/ \E T \in tasks : JoinFinish(T)
  \/ /\ CanWrite(MaxSends)
     /\ \E s \in connected, p \in ConvPayloads, b \in BodyPayloads, ok \in BOOLEAN :
          SendStart(s, p, b, ok)
  \/ \E T \in tasks, ok \in BOOLEAN : SendCommit(T, ok)
  \/ \E T \in tasks : SendCheck(T)
  \/ \E T \in tasks, ok \in BOOLEAN : SendDeliver(T, ok)
  \/ \E T \in tasks : SendEmit(T)
  \/ \E T \in tasks, ok \in BOOLEAN : SendNotify(T, ok)
  \/ \E T \in tasks, r \in EmailOutcomes : SendEmail(T, r)

SpecSends == Init /\ [][NextSends]_vars

\* the same with a store that answers every query and a recipient whose
\* address is on file; the mail transport may still refuse the mail
MailOutcomes == {"sent", "send_failed"}

NextReliable ==
  \/ \E s \in ParticipantSockets : Connect(s)
  \/ \E s \in connected : Disconnect(s)
  \/ \E s \in connected, p \in ConvPayloads : LeaveConversation(s, p)
  \/ \E s \in connected, p \in ConvPayloads : JoinStart(s, p)
  \/ \E T \in tasks : JoinFind(T, TRUE)
  \/ \E T \in tasks : JoinUpdate(T, TRUE)
  \/ \E T \in tasks : JoinFinish(T)
  \/ /\ CanWrite(MaxSends)
     /\ \E s \in connected, p \in ConvPayloads, b \in BodyPayloads :
          SendStart(s, p, b, TRUE)
  \/ \E T \in tasks : SendCommit(T, TRUE)
  \/ \E T \in tasks : SendCheck(T)
  \/ \E T \in tasks : SendDeliver(T, TRUE)
  \/ \E T \in tasks : SendEmit(T)
  \/ \E T \in tasks : SendNotify(T, TRUE)
  \/ \E T \in tasks, r \in MailOutcomes : SendEmail(T, r)

SpecReliable == Init /\ [][NextReliable]_vars

\* two messages and the two bulk updates: sends with a working store, none
\* of them into a joined room, and mark_as_delivered and mark_as_read with a
\* store that may fail
NextMarks ==
  \/ \E s \in ParticipantSockets : Connect(s)
  \/ \E s \in connected : Disconnect(s)
  \/ /\ CanWrite(MaxSends)
     /\ \E s \in connected, p \in ConvPayloads, b \in BodyPayloads :
          SendStart(s, p, b, TRUE)
  \/ \E T \in tasks : SendCommit(T, TRUE)
  \/ \E T \in tasks : SendCheck(T)
  \/ \E T \in tasks : SendNotify(T, TRUE)
  \/ \E T \in tasks, r \in MailOutcomes : SendEmail(T, r)
  \/ \E s \in connected, p \in ConvPayloads, ok \in BOOLEAN : DeliveredStart(s, p, ok)
  \/ \E T \in tasks, ok \in BOOLEAN : DeliveredUpdate(T, ok)
  \/ \E T \in tasks : DeliveredFinish(T)
  \/ \E s \in connected, p \in ConvPayloads, ok \in BOOLEAN : ReadStart(s, p, ok)
  \/ \E T \in tasks, ok \in BOOLEAN : ReadSelect(T, ok)
  \/ \E T \in tasks, ok \in BOOLEAN : ReadCommit(T, ok)
  \/ \E T \in tasks : ReadFinish(T)

SpecMarks == Init /\ [][NextMarks]_vars

\* the sockets of every user, the recruiter with several sessions
SessionSockets == {s \in 1..(3 * MaxSessions) : s <= 3 \/ Owner(s) = Recruiter}

\* every user with a session, and the inactive conversation 2 among the
\* payloads; joins with a store that may fail and one send with a store
\* that fails at the lookup only
AnyConvPayloads == ConvPayloads \cup {Num(2)}
AnyBodyPayloads == BodyPayloads \cup {Undef, Num(1)}

NextSessions ==
  \/ \E s \in Sockets : Connect(s)
  \/ \E s \in connected : Disconnect(s)
  \/ \E s \in connected, p \in AnyConvPayloads : LeaveConversation(s, p)
  \/ \E s \in connected, p \in AnyConvPayloads : JoinStart(s, p)
  \/ \E T \in tasks, ok \in BOOLEAN : JoinFind(T, ok)
  \/ \E T \in tasks, ok \in BOOLEAN : JoinUpdate(T, ok)
  \/ \E T \in tasks : JoinFinish(T)
  \/ /\ CanWrite(MaxMsgs)
     /\ \E s \in connected, p \in AnyConvPayloads, b \in AnyBodyPayloads, ok \in BOOLEAN :
          SendStart(s, p, b, ok)
  \/ \E T \in tasks : SendCommit(T, TRUE)
  \/ \E T \in tasks : SendCheck(T)
  \/ \E T \in tasks : SendDeliver(T, TRUE)
  \/ \E T \in tasks : SendEmit(T)
  \/ \E T \in tasks : SendNotify(T, TRUE)
  \/ \E T \in tasks, r \in MailOutcomes : SendEmail(T, r)

SpecSessions == Init /\ [][NextSessions]_vars

\* concurrent sends alone: both participants are connected and stay
\* subscribed to conversation 1, the store does not fail
InitSubscribed ==
  /\ now = 1
  /\ connected = ParticipantSockets
  /\ rooms = {<<s, UserRoom(Owner(s))>> : s \in ParticipantSockets}
               \cup {<<s, ConvRoom(IntToStr(1))>> : s \in ParticipantSockets}
  /\ convs = [c \in {1, 2} |->
               [recruiter_user_id |-> Recruiter, talent_user_id |-> Talent,
                status |-> (c = 1), cc_last_message |-> <<>>,
                cc_unread_count_recruiter |-> 0, cc_unread_count_talent |-> 0]]
  /\ messages = <<>>
  /\ tasks = {}
  /\ emitted = {}

NextOrder ==
  \/ /\ CanWrite(MaxSends)
     /\ \E s \in connected, p \in ConvPayloads, b \in BodyPayloads :
          SendStart(s, p, b, TRUE)
  \/ \E T \in tasks : SendCommit(T, TRUE)
  \/ \E T \in tasks : SendCheck(T)
  \/ \E T \in tasks : SendDeliver(T, TRUE)
  \/ \E T \in tasks : SendEmit(T)

SpecOrder == InitSubscribed /\ [][NextOrder]_vars

\* presence queries: every user, the recruiter with several sessions; the
\* ids asked about are numbers or strings, of the three users and of user 4,
\* who has no session
MaxBatch == 2
UserIdPayloads ==
  {Undef} \cup {Num(u) : u \in Users \cup {UnknownUser}}
          \cup {Str(IntToStr(u)) : u \in {Recruiter, Talent}}
BatchIds == {Undef, Num(Recruiter), Str(IntToStr(Talent))}
BatchPayloads ==
  {NotArray} \cup {Arr(xs) : xs \in UNION {[1..n -> BatchIds] : n \in 0..MaxBatch}}

NextPresence ==
  \/ \E s \in SessionSockets : Connect(s)
  \/ \E s \in connected : Disconnect(s)
  \/ \E s \in connected, p \in UserIdPayloads : CheckUserStatus(s, p)
  \/ \E s \in connected, ps \in BatchPayloads : CheckMultipleUsersStatus(s, ps)

SpecPresence == Init /\ [][NextPresence]_vars

\* admission: handshakes with every kind of credential and a user lookup
\* that may fail; the admitted sessions join conversations
Tokens == {NoToken, BadToken} \cup {TokenOf(u) : u \in Users \cup {InactiveUser, UnknownUser}}

AdmissionSockets == Sockets \cup {InactiveSlot}

NextAdmission ==
  \/ \E s \in AdmissionSockets, tok \in Tokens, ok \in BOOLEAN : Handshake(s, tok, ok)
  \/ \E s \in connected : Disconnect(s)
  \/ \E s \in connected, p \in ConvPayloads : JoinStart(s, p)
  \/ \E T \in tasks : JoinFind(T, TRUE)
  \/ \E T \in tasks : JoinUpdate(T, TRUE)
  \/ \E T \in tasks : JoinFinish(T)

SpecAdmission == Init /\ [][NextAdmission]_vars

\* the bulk updates asked for by anybody: every user with a session, one
\* message sent with a working store, mark_as_delivered and mark_as_read
\* on any conversation with a lookup that may fail
NextForeign ==
  \/ \E s \in Sockets : Connect(s)
  \/ /\ CanWrite(MaxMsgs)
     /\ \E s \in connected, p \in ConvPayloads, b \in BodyPayloads :
          SendStart(s, p, b, TRUE)
  \/ \E T \in tasks : SendCommit(T, TRUE)
  \/ \E T \in tasks : SendCheck(T)
  \/ \E T \in tasks : SendNotify(T, TRUE)
  \/ \E T \in tasks, r \in MailOutcomes : SendEmail(T, r)
  \/ \E s \in connected, p \in AnyConvPayloads, ok \in BOOLEAN : DeliveredStart(s, p, ok)
  \/ \E T \in tasks : DeliveredUpdate(T, TRUE)
  \/ \E T \in tasks : DeliveredFinish(T)
  \/ \E s \in connected, p \in AnyConvPayloads, ok \in BOOLEAN : ReadStart(s, p, ok)
  \/ \E T \in tasks : ReadSelect(T, TRUE)
  \/ \E T \in tasks : ReadCommit(T, TRUE)
  \/ \E T \in tasks : ReadFinish(T)

SpecForeign == Init /\ [][NextForeign]_vars

\* typing indicators: every user with a session, joins and leaves with a
\* store that does not fail
TypingEvents == {"user_typing", "user_stop_typing"}

NextTyping ==
  \/ \E s \in Sockets : Connect(s)
  \/ \E s \in connected : Disconnect(s)
  \/ \E s \in connected, p \in AnyConvPayloads : LeaveConversation(s, p)
  \/ \E s \in connected, p \in AnyConvPayloads : JoinStart(s, p)
  \/ \E T \in tasks : JoinFind(T, TRUE)
  \/ \E T \in tasks : JoinUpdate(T, TRUE)
  \/ \E T \in tasks : JoinFinish(T)
  \/ \E s \in connected, p \in AnyConvPayloads, ev \in TypingEvents : Typing(s, p, ev)

SpecTyping == Init /\ [][NextTyping]_vars

\* the conversationId a client sends: one value per client, the same in its
\* join_conversation and in its leave_conversation; the recruiter's client
\* sends the number, the talent's client a string that parseInt accepts
ClientId(s) == IF Owner(s) = Recruiter THEN Num(1) ELSE Str(<<"1", "x">>)

\* sessions of the two participants that join and leave their conversation,
\* with a store that does not fail
NextLeave ==
  \/ \E s \in ParticipantSockets : Connect(s)
  \/ \E s \in connected : Disconnect(s)
  \/ \E s \in connected : JoinStart(s, ClientId(s))
  \/ \E T \in tasks : JoinFind(T, TRUE)
  \/ \E T \in tasks : JoinUpdate(T, TRUE)
  \/ \E T \in tasks : JoinFinish(T)
  \/ \E s \in connected : LeaveConversation(s, ClientId(s))

SpecLeave == Init /\ [][NextLeave]_vars

\* time passes between two steps: a later new Date() reads a later value
Tick ==
  /\ now < MaxNow
  /\ now' = now + 1
  /\ UNCHANGED <<connected, rooms, convs, messages, tasks, emitted>>

\* one message and the three operations that write cm_delivered_at after the
\* send, with a clock that moves and a store that does not fail
NextClock ==
  \/ Tick
  \/ \E s \in ParticipantSockets : Connect(s)
  \/ \E s \in connected, p \in ConvPayloads : JoinStart(s, p)
  \/ \E T \in tasks : JoinFind(T, TRUE)
  \/ \E T \in tasks : JoinUpdate(T, TRUE)
  \/ \E T \in tasks : JoinFinish(T)
  \/ /\ CanWrite(MaxMsgs)
     /\ \E s \in connected, p \in ConvPayloads, b \in BodyPayloads :
          SendStart(s, p, b, TRUE)
  \/ \E T \in tasks : SendCommit(T, TRUE)
  \/ \E T \in tasks : SendCheck(T)
  \/ \E T \in tasks : SendDeliver(T, TRUE)
  \/ \E T \in tasks : SendEmit(T)
  \/ \E T \in tasks : SendNotify(T, TRUE)
  \/ \E T \in tasks, r \in MailOutcomes : SendEmail(T, r)
  \/ \E s \in connected, p \in ConvPayloads : DeliveredStart(s, p, TRUE)
  \/ \E T \in tasks : DeliveredUpdate(T, TRUE)
  \/ \E T \in tasks : DeliveredFinish(T)
  \/ \E s \in connected, p \in ConvPayloads : ReadStart(s, p, TRUE)
  \/ \E T \in tasks : ReadSelect(T, TRUE)
  \/ \E T \in tasks : ReadCommit(T, TRUE)
  \/ \E T \in tasks : ReadFinish(T)

SpecClock == Init /\ [][NextClock]_vars

\* ------------------------------------------------------------------ claims
\* a step of the handler T: it has left the state it was in
Took(T, kind, pc) ==
  /\ T \in tasks /\ T.kind = kind /\ T.pc = pc
  /\ Cardinality(Twins(T, tasks')) < Cardinality(Twins(T, tasks))

\* the same handler after its step, at pc
Reached(T, pc) ==
  \E U \in tasks' : /\ U.kind = T.kind /\ U.sock = T.sock /\ U.conv = T.conv /\ U.pc = pc
                    /\ Cardinality(Twins(U, tasks)) < Cardinality(Twins(U, tasks'))

Failed == \E e \in emitted' : e.ev = "error"

\* C1: in every reachable state every message with cm_is_read = true has
\* cm_is_delivered = true.
C1_ReadImpliesDelivered ==
  \A i \in DOMAIN messages : messages[i].cm_is_read => messages[i].cm_is_delivered

\* a mark_as_read has just committed on a message sent by the other user
C1_Witness ==
  \E T \in tasks, i \in DOMAIN messages :
    /\ T.kind = "read" /\ T.pc = "r_fin"
    /\ messages[i].cm_message_type = "Text" /\ messages[i].sender_user_id # T.user
    /\ messages[i].cm_is_read

\* C2: no step removes a message or turns its delivered flag or its read flag
\* from true back to false.
C2_StatusOnlyForward ==
  [][\A i \in DOMAIN messages :
       /\ i \in DOMAIN messages'
       /\ messages[i].cm_is_delivered => messages'[i].cm_is_delivered
       /\ messages[i].cm_is_read => messages'[i].cm_is_read]_vars

\* send_message's own delivered update has been applied to a message that the
\* recipient has read
C2_Witness ==
  \E T \in tasks : /\ T.kind = "send" /\ T.pc = "s_emit"
                   /\ messages[T.cm_id].cm_is_read

\* C3: with concurrent sends and no mark_as_read, each side's unread counter
\* equals the number of messages the other side has persisted, in every state.
C3_NoLostIncrement ==
  \A c \in DOMAIN convs :
    /\ convs[c].cc_unread_count_talent =
         Cardinality({i \in DOMAIN messages :
            messages[i].cc_id = c /\ messages[i].sender_user_id = convs[c].recruiter_user_id})
    /\ convs[c].cc_unread_count_recruiter =
         Cardinality({i \in DOMAIN messages :
            messages[i].cc_id = c /\ messages[i].sender_user_id = convs[c].talent_user_id})

\* two sends of the same sender are in flight together and have both committed
C3_Witness ==
  \E T, U \in tasks :
    /\ T # U /\ T.kind = "send" /\ U.kind = "send" /\ T.user = U.user
    /\ T.cm_id # 0 /\ U.cm_id # 0 /\ T.cm_id # U.cm_id
    /\ convs[T.conv].cc_unread_count_talent + convs[T.conv].cc_unread_count_recruiter = 2

\* the sockets of user u, and those of them in the room of conversation c
SessionsOf(u) == {s \in connected : Owner(s) = u}
SessionsIn(c, u) == {s \in SessionsOf(u) : <<s, ConvRoom(IntToStr(c))>> \in rooms}

\* a live send_message handler holds message id
SendOf(S, id) == {U \in S : U.kind = "send" /\ U.cm_id = id}

\* C4 (as stated): every step that persists a message raises the unread
\* counter of the participant who is not its sender by one and leaves the
\* sender's counter as it was.
C4_EveryMessageCounts ==
  [][Len(messages') > Len(messages) =>
       LET m == messages'[Len(messages')]
           cv == convs[m.cc_id]
           cw == convs'[m.cc_id] IN
         IF m.sender_user_id = cv.recruiter_user_id
         THEN /\ cw.cc_unread_count_talent = cv.cc_unread_count_talent + 1
              /\ cw.cc_unread_count_recruiter = cv.cc_unread_count_recruiter
         ELSE /\ cw.cc_unread_count_recruiter = cv.cc_unread_count_recruiter + 1
              /\ cw.cc_unread_count_talent = cv.cc_unread_count_talent]_vars

\* C5: a counter goes down only in the commit of a mark_as_read of the user
\* on that side, and then to zero; that commit leaves the counter of the
\* other side as it was.
C5_ResetOnlyByOwnRead ==
  [][\A c \in DOMAIN convs :
       /\ convs'[c].cc_unread_count_recruiter < convs[c].cc_unread_count_recruiter
            => /\ convs'[c].cc_unread_count_recruiter = 0
               /\ \E T \in tasks : /\ Took(T, "read", "r_commit") /\ T.conv = c
                                   /\ T.user = convs[c].recruiter_user_id
       /\ convs'[c].cc_unread_count_talent < convs[c].cc_unread_count_talent
            => /\ convs'[c].cc_unread_count_talent = 0
               /\ \E T \in tasks : /\ Took(T, "read", "r_commit") /\ T.conv = c
                                   /\ T.user = convs[c].talent_user_id
       /\ \A T \in tasks :
            Took(T, "read", "r_commit") /\ T.conv = c =>
              IF T.user = convs[c].recruiter_user_id
              THEN convs'[c].cc_unread_count_talent = convs[c].cc_unread_count_talent
              ELSE convs'[c].cc_unread_count_recruiter = convs[c].cc_unread_count_recruiter]_vars

\* a mark_as_read of the recipient has just committed: the message is read
\* and the reader's counter is back at zero
C5_Witness ==
  \E T \in tasks, i \in DOMAIN messages :
    /\ T.kind = "read" /\ T.pc = "r_fin" /\ messages[i].cc_id = T.conv
    /\ messages[i].sender_user_id = Recruiter /\ T.user = Talent
    /\ messages[i].cm_is_read /\ messages[i].cm_message_type = "Text"
    /\ convs[T.conv].cc_unread_count_talent = 0

C7_JoinCatchUp ==
  [][\A T \in tasks :
       /\ Took(T, "join", "j_upd") /\ Reached(T, "j_fin")
            => \A i \in DOMAIN messages :
                 IF /\ messages[i].cc_id = T.conv
                    /\ messages[i].sender_user_id # T.user
                    /\ ~messages[i].cm_is_delivered
                 THEN /\ messages'[i].cm_delivered_at # Null
                      /\ messages'[i] =
                           [messages[i] EXCEPT !.cm_is_delivered = TRUE,
                                               !.cm_delivered_at = messages'[i].cm_delivered_at]
                 ELSE messages'[i] = messages[i]
       /\ Took(T, "join", "j_fin")
            => \E e \in emitted' :
                 /\ e.ev = "messages_delivered" /\ e.conv = T.conv
                 /\ e.to = SessionsOf(OtherUser(T.conv, T.user))]_vars

\* a join has finished and told a session of the sender, whose message is
\* delivered while a message sent by the joining user is not
C7_Witness ==
  \E e \in emitted, i, j \in DOMAIN messages :
    /\ e.ev = "messages_delivered" /\ e.to # {}
    /\ messages[i].cc_id = e.conv /\ messages[i].sender_user_id # e.user
    /\ messages[i].cm_is_delivered
    /\ messages[j].cc_id = e.conv /\ messages[j].sender_user_id = e.user
    /\ ~messages[j].cm_is_delivered

\* the Notification rows and the mail attempts a step produces
RowsMade == {e \in emitted' : e.ev = "new_chat_message"}
MailsMade == {e \in emitted' : e.ev = "chat_email"}

\* the step in which the handler T emits new_message and checks presence
FannedOut(T) ==
  /\ Took(T, "send", "s_check") \/ Took(T, "send", "s_emit")
  /\ \E e \in emitted' : e.ev = "new_message" /\ e.cm_id = T.cm_id

C10_FallbackFailureContained ==
  [][\A T \in tasks :
       Took(T, "send", "s_notify") \/ Took(T, "send", "s_email")
         => /\ ~Failed
            /\ messages' = messages
            /\ convs' = convs]_vars

\* the mail transport has just refused the mail: a log line, and the
\* message, its preview and the recipient's counter are in place
C10_Witness ==
  \E i \in DOMAIN messages :
    LET m == messages[i]
        r == OtherUser(m.cc_id, m.sender_user_id) IN
    /\ emitted = {MailAttempt(r, "chat_email", i), LogError}
    /\ convs[m.cc_id].cc_last_message # <<>>
    /\ convs[m.cc_id].cc_unread_count_talent + convs[m.cc_id].cc_unread_count_recruiter > 0

\* C11 (as stated): the two steps of the offline fallback do not depend on
\* each other: whatever the outcome of the Notification insert, the handler
\* goes on to the mail, and the mail step, failing or not, does nothing to
\* the Notification row (it makes a mail attempt and a log line at most).
C11_IndependentSteps ==
  [][\A T \in tasks :
       /\ Took(T, "send", "s_notify") => Reached(T, "s_email")
       /\ Took(T, "send", "s_email")
            => \A e \in emitted' : e.ev \in {"chat_email", "log_error"}]_vars

\* the handlers that arrive at pc in this step
Arrived(pc) ==
  {U \in tasks' : /\ U.kind = "send" /\ U.pc = pc
                  /\ Cardinality(Twins(U, tasks)) < Cardinality(Twins(U, tasks'))}

\* C12: a send reaches the offline fallback only in the step that has emitted
\* new_message to the conversation room and message_notification to the
\* recipient's personal room; Notification rows and mails are made only by
\* the fallback steps that follow, and these emit neither event nor an error.
C12_FanOutBeforeFallback ==
  [][/\ \A U \in Arrived("s_notify") :
          /\ \E e \in emitted' :
               /\ e.ev = "new_message" /\ e.cm_id = U.cm_id
               /\ e.to = InRoom(ConvRoom(IntToStr(U.conv)))
          /\ \E e \in emitted' :
               /\ e.ev = "message_notification" /\ e.cm_id = U.cm_id
               /\ e.to = SessionsOf(OtherUser(U.conv, U.user))
     /\ \A T \in tasks :
          Took(T, "send", "s_notify") \/ Took(T, "send", "s_email")
            => \A e \in emitted' :
                 e.ev \notin {"new_message", "message_notification", "error"}
     /\ RowsMade \cup MailsMade # {}
          => \E T \in tasks : Took(T, "send", "s_notify") \/ Took(T, "send", "s_email")]_vars

\* the fan-out of a message has just gone out and its send now stands before
\* the Notification insert
C12_Witness ==
  \E T \in tasks, e \in emitted :
    /\ T.kind = "send" /\ T.pc = "s_notify"
    /\ e.ev = "new_message" /\ e.cm_id = T.cm_id /\ e.to # {}

\* C13: the updateMany of a mark_as_read by A takes exactly the messages of
\* the conversation that A did not send and that are unread; the commit sets
\* read and delivered (with timestamps) on these, changes no other message
\* and sets A's unread counter to zero; the handler then emits exactly one
\* messages_read, for that conversation, to the other participant's sessions.
C13_MarkAsRead ==
  [][\A T \in tasks :
       /\ Took(T, "read", "r_sel")
            => \A U \in tasks' :
                 U.kind = "read" /\ U.pc = "r_commit" /\ U.sock = T.sock /\ U.conv = T.conv
                 /\ Cardinality(Twins(U, tasks)) < Cardinality(Twins(U, tasks'))
                   => U.sel = {i \in DOMAIN messages : /\ messages[i].cc_id = T.conv
                                                       /\ messages[i].sender_user_id # T.user
                                                       /\ ~messages[i].cm_is_read}
       /\ Took(T, "read", "r_commit") /\ Reached(T, "r_fin")
            => /\ \A i \in DOMAIN messages :
                    IF i \in T.sel
                    THEN /\ messages[i].sender_user_id # T.user
                         /\ messages'[i].cm_is_read /\ messages'[i].cm_is_delivered
                         /\ messages'[i].cm_read_at # Null
                         /\ messages'[i].cm_delivered_at # Null
                         /\ messages'[i].cm_message = messages[i].cm_message
                    ELSE messages'[i] = messages[i]
               /\ IF T.user = convs[T.conv].recruiter_user_id
                  THEN convs'[T.conv].cc_unread_count_recruiter = 0
                  ELSE convs'[T.conv].cc_unread_count_talent = 0
       /\ Took(T, "read", "r_fin")
            => /\ Cardinality({e \in emitted' : e.ev = "messages_read"}) = 1
               /\ \A e \in emitted' :
                    e.ev = "messages_read"
                      => e.conv = T.conv /\ e.to = SessionsOf(OtherUser(T.conv, T.user))]_vars

\* a mark_as_read has committed: a message of the other side is read and
\* delivered, one sent by the reader is untouched, the counter is at zero
C13_Witness ==
  \E T \in tasks, i, j \in DOMAIN messages :
    /\ T.kind = "read" /\ T.pc = "r_fin"
    /\ messages[i].cc_id = T.conv /\ messages[i].sender_user_id # T.user
    /\ messages[i].cm_is_read /\ messages[i].cm_is_delivered
    /\ messages[j].cc_id = T.conv /\ messages[j].sender_user_id = T.user
    /\ ~messages[j].cm_is_read
    /\ IF T.user = Recruiter THEN convs[T.conv].cc_unread_count_recruiter = 0
                             ELSE convs[T.conv].cc_unread_count_talent = 0

\* C14: the updateMany of a mark_as_delivered by A sets delivered (with its
\* timestamp) on exactly the messages of the conversation that A did not
\* send and that were not delivered, changes no read flag, no other message
\* and no counter; the handler then emits messages_delivered for that
\* conversation to the other participant's sessions.
C14_MarkAsDelivered ==
  [][\A T \in tasks :
       /\ Took(T, "delivered", "d_upd") /\ Reached(T, "d_fin")
            => /\ \A i \in DOMAIN messages :
                    IF /\ messages[i].cc_id = T.conv
                       /\ messages[i].sender_user_id # T.user
                       /\ ~messages[i].cm_is_delivered
                    THEN /\ messages'[i].cm_delivered_at # Null
                         /\ messages'[i] =
                              [messages[i] EXCEPT !.cm_is_delivered = TRUE,
                                                  !.cm_delivered_at = messages'[i].cm_delivered_at]
                    ELSE messages'[i] = messages[i]
               /\ convs' = convs
       /\ Took(T, "delivered", "d_upd") \/ Took(T, "delivered", "d_fin")
            => convs' = convs
       /\ Took(T, "delivered", "d_fin")
            => /\ messages' = messages
               /\ \E e \in emitted' :
                    /\ e.ev = "messages_delivered" /\ e.conv = T.conv
                    /\ e.to = SessionsOf(OtherUser(T.conv, T.user))]_vars

\* a mark_as_delivered has ended and told a session of the sender: the
\* message is delivered, not read, and still counted as unread
C14_Witness ==
  \E e, f \in emitted, i \in DOMAIN messages :
    /\ e.ev = "messages_marked_delivered"
    /\ f.ev = "messages_delivered" /\ f.conv = messages[i].cc_id /\ f.to # {}
    /\ messages[i].sender_user_id # f.user
    /\ messages[i].cm_is_delivered /\ ~messages[i].cm_is_read
    /\ convs[f.conv].cc_unread_count_talent + convs[f.conv].cc_unread_count_recruiter > 0

\* C15 (as stated): when a session of user R disconnects, user_offline for
\* R is broadcast exactly when R has no other session left.
C15_OfflineOnlyForLastSession ==
  [][\A s \in connected :
       s \notin connected'
         => ((\E e \in emitted' : e.ev = "user_offline" /\ e.user = Owner(s))
               <=> SessionsOf(Owner(s)) \ {s} = {})]_vars

\* user u may subscribe to conversation c: a participant of an active one
MayJoin(c, u) ==
  /\ c \in DOMAIN convs
  /\ u \in {convs[c].recruiter_user_id, convs[c].talent_user_id}
  /\ convs[c].status

\* C16: a join by a user who is not a participant, or on a conversation that
\* is not active, sends an error to the calling session only, subscribes
\* nothing, marks no message and emits no messages_delivered; a session is
\* added to a conversation room only for a participant of that active
\* conversation, so every member of a conversation room is a participant.
C16_JoinOnlyParticipants ==
  [][/\ \A T \in tasks :
          Took(T, "join", "j_find") /\ ~MayJoin(T.conv, T.user)
            => /\ rooms' = rooms /\ messages' = messages
               /\ \E e \in emitted' : e.ev = "error" /\ e.to = ToSocket(T.sock)
               /\ \A e \in emitted' : e.to \subseteq {T.sock} /\ e.ev # "messages_delivered"
               /\ ~Reached(T, "j_upd") /\ ~Reached(T, "j_fin")
     /\ \A m \in rooms' \ rooms :
          m[2][1] = "conversation"
            => \E c \in DOMAIN convs : m[2] = ConvRoom(IntToStr(c)) /\ MayJoin(c, Owner(m[1]))
     /\ \A m \in rooms' :
          m[2][1] = "conversation"
            => \E c \in DOMAIN convs :
                 /\ m[2] = ConvRoom(IntToStr(c))
                 /\ Owner(m[1]) \in {convs[c].recruiter_user_id, convs[c].talent_user_id}]_vars

\* an error has gone to a session of the outsider alone, who is in no
\* conversation room, while a participant is subscribed and a message of the
\* conversation is still not delivered
C16_Witness ==
  \E s, t \in connected, i \in DOMAIN messages :
    /\ Owner(s) = Outsider /\ Event("error", {s}, 0, 0, 0, FALSE) \in emitted
    /\ \A m \in rooms : m[1] = s => m[2] = UserRoom(Outsider)
    /\ <<t, ConvRoom(IntToStr(messages[i].cc_id))>> \in rooms
    /\ ~messages[i].cm_is_delivered
    /\ tasks = {}

\* a conversation id is numeric: a number, or a string of digits
IsNumeric(p) ==
  \/ p.k = "num"
  \/ p.k = "str" /\ p.s # <<>> /\ \A n \in DOMAIN p.s : IsDigit(p.s[n])

\* what the claim counts as a send that fails validation
FailsValidation(s, p, b) ==
  \/ p.k = "undef" \/ ~IsNumeric(p)
  \/ b.k # "str" \/ Trim(b.s) = <<>>
  \/ ~MayJoin(ParseInt(p), Owner(s))

\* C17 (as stated): a send_message with a missing or non-numeric
\* conversation id, a body that is no string or is empty after trimming, an
\* unknown or inactive conversation or a sender who is no participant ends
\* at once with an error to the calling session only: no handler goes on to
\* the store, no message, preview or counter changes, nothing else is emitted.
C17_InvalidSendHasNoEffect ==
  [][\A s \in connected, p \in AnyConvPayloads, b \in AnyBodyPayloads, ok \in BOOLEAN :
       SendStart(s, p, b, ok) /\ FailsValidation(s, p, b)
         => /\ tasks' = tasks /\ messages' = messages /\ convs' = convs
            /\ \E e \in emitted' : e.ev = "error" /\ e.to = {s}
            /\ \A e \in emitted' : e.ev \in {"error", "log_error"} /\ e.to \subseteq {s}]_vars

\* the unread counter of user u in conversation row cv
UnreadOf(cv, u) ==
  IF cv.recruiter_user_id = u THEN cv.cc_unread_count_recruiter
                              ELSE cv.cc_unread_count_talent

\* C18: the transaction of a send either commits the message, the preview
\* and the increment of the other side's counter in one step, or fails and
\* leaves messages, previews and counters as they were, with an error to the
\* sender's session and nothing else emitted; messages, previews and
\* counters change in no other step of a send.
C18_SendTransactionAtomic ==
  [][/\ \A T \in tasks :
          Took(T, "send", "s_tx")
            => LET r == OtherUser(T.conv, T.user) IN
               IF Reached(T, "s_check")
               THEN /\ Len(messages') = Len(messages) + 1
                    /\ \A i \in DOMAIN messages : messages'[i] = messages[i]
                    /\ messages'[Len(messages')].cc_id = T.conv
                    /\ messages'[Len(messages')].sender_user_id = T.user
                    /\ messages'[Len(messages')].cm_message = T.body
                    /\ convs'[T.conv].cc_last_message = Substring(T.body, PreviewLen)
                    /\ UnreadOf(convs'[T.conv], r) = UnreadOf(convs[T.conv], r) + 1
                    /\ UnreadOf(convs'[T.conv], T.user) = UnreadOf(convs[T.conv], T.user)
                    /\ ~Failed
               ELSE /\ messages' = messages /\ convs' = convs
                    /\ \E e \in emitted' : e.ev = "error" /\ e.to = ToSocket(T.sock)
                    /\ \A e \in emitted' : e.ev \in {"error", "log_error"}
                    /\ \A U \in tasks' : U \in tasks
     /\ (\A T \in tasks : ~Took(T, "send", "s_tx"))
          => Len(messages') = Len(messages) /\ convs' = convs]_vars

\* a transaction has just failed: the sender's session got the error and
\* the store holds no message, no preview and no unread count
C18_Witness ==
  \E s \in connected :
    /\ Event("error", {s}, 0, 0, 0, FALSE) \in emitted
    /\ tasks = {} /\ messages = <<>>
    /\ \A c \in DOMAIN convs :
         /\ convs[c].cc_last_message = <<>>
         /\ convs[c].cc_unread_count_talent = 0 /\ convs[c].cc_unread_count_recruiter = 0
    /\ \E t \in connected : t # s /\ <<t, ConvRoom(IntToStr(1))>> \in rooms

\* C19 (as stated): a send ends for its sender either with an error and
\* nothing persisted, or with its message persisted and fanned out and
\* no error: no step of a send that has persisted its message emits an
\* error, and such a send does not end before new_message has gone out.
C19_ErrorOrPersisted ==
  [][\A T \in tasks :
       /\ T.kind = "send" /\ Took(T, "send", T.pc) /\ Failed
            => T.cm_id = 0 /\ messages' = messages /\ convs' = convs
       /\ Took(T, "send", "s_check") \/ Took(T, "send", "s_deliver")
            => \/ SendOf(tasks', T.cm_id) # {}
               \/ \E e \in emitted' : e.ev = "new_message" /\ e.cm_id = T.cm_id]_vars

\* C20 (as stated), with every session subscribed throughout: when the
\* new_message of a message goes out, every message persisted after it in
\* the same conversation is still waiting for its own fan-out, so that no
\* session receives a later message before an earlier one.
C20_FanOutInPersistOrder ==
  [][\A e \in emitted' :
       e.ev = "new_message"
         => \A i \in DOMAIN messages :
              i > e.cm_id /\ messages[i].cc_id = e.conv
                => \E U \in SendOf(tasks, i) : U.pc \in {"s_check", "s_deliver", "s_emit"}]_vars

\* the user an id payload names: the number itself, or the number a string
\* of digits spells
NamedUser(p) == IF IsNumeric(p) THEN ParseInt(p) ELSE 0

\* C21: check_user_status with a userId is answered by one
\* user_status_response, written to the calling session only, that carries
\* the id as asked and isOnline = (the user has a connected session);
\* check_multiple_users_status with an array is answered by one
\* multiple_users_status_response, to the calling session only, with one
\* entry per element of the array, in its order, each by the same rule.
C21_StatusQueries ==
  [][/\ \A s \in connected, p \in UserIdPayloads :
          CheckUserStatus(s, p) /\ p # Undef
            => emitted' = {[ev |-> "user_status_response", to |-> {s},
                            status |-> [userId |-> p,
                                        isOnline |-> SessionsOf(NamedUser(p)) # {}]]}
     /\ \A s \in connected, ps \in BatchPayloads :
          CheckMultipleUsersStatus(s, ps) /\ ps.isArray
            => \E e \in emitted' :
                 /\ emitted' = {e}
                 /\ e.ev = "multiple_users_status_response" /\ e.to = {s}
                 /\ Len(e.statuses) = Len(ps.items)
                 /\ \A i \in 1..Len(ps.items) :
                      /\ e.statuses[i].userId = ps.items[i]
                      /\ e.statuses[i].isOnline <=> SessionsOf(NamedUser(ps.items[i])) # {}]_vars

\* a batch answer has gone to one of two sessions of the recruiter: the
\* recruiter is reported online and the talent, who has no session, offline
C21_Witness ==
  \E e \in emitted :
    /\ e.ev = "multiple_users_status_response"
    /\ \E s \in e.to : Owner(s) = Recruiter /\ SessionsOf(Recruiter) \ {s} # {}
    /\ Len(e.statuses) = 2
    /\ e.statuses[1].userId = Num(Recruiter) /\ e.statuses[1].isOnline
    /\ e.statuses[2].userId = Str(IntToStr(Talent)) /\ ~e.statuses[2].isOnline
    /\ SessionsOf(Talent) = {}

\* C22: a handshake admits its connection exactly when the credential is a
\* token that verifies, the lookup answers and the user exists and is
\* active: the session is then registered, placed in its user's personal
\* room, and user_online goes to the sessions that were there before;
\* otherwise the connection is refused with connect_error, no session is
\* registered, no room changes and no presence event goes out.  A session
\* is registered by no other step, and handlers run for registered
\* sessions only.
C22_Admission ==
  [][/\ \A s \in AdmissionSockets, tok \in Tokens, ok \in BOOLEAN :
          Handshake(s, tok, ok)
            => IF /\ tok.k = "jwt" /\ ok
                  /\ tok.user_id \in DOMAIN UserTable /\ UserTable[tok.user_id].is_active
               THEN /\ connected' = connected \cup {s}
                    /\ {m \in rooms' : m[1] = s} = {<<s, UserRoom(tok.user_id)>>}
                    /\ {m \in rooms' : m[1] # s} = {m \in rooms : m[1] # s}
                    /\ Owner(s) = tok.user_id
                    /\ \E e \in emitted' : /\ e.ev = "user_online" /\ e.user = tok.user_id
                                            /\ e.to = connected
                    /\ \A e \in emitted' : e.ev # "connect_error"
               ELSE /\ connected' = connected /\ rooms' = rooms /\ tasks' = tasks
                    /\ \E e \in emitted' : e.ev = "connect_error"
                    /\ \A e \in emitted' : e.ev \in {"connect_error", "log_error"} /\ e.to = {}
     /\ \A s \in connected' \ connected :
          \E u \in DOMAIN UserTable :
            UserTable[u].is_active /\ Handshake(s, TokenOf(u), TRUE)
     /\ \A T \in tasks' :
          T.pc = "j_find" /\ Cardinality(Twins(T, tasks)) < Cardinality(Twins(T, tasks'))
            => T.sock \in connected]_vars

\* a refused handshake has just been answered while another session is
\* registered: the refused slot is in no room
C22_Witness ==
  /\ Event("connect_error", {}, 0, 0, 0, FALSE) \in emitted
  /\ connected # {}
  /\ \E s \in AdmissionSockets \ connected : \A m \in rooms : m[1] # s

\* C23 (as stated): whenever no handler is in flight, no message is left
\* undelivered while its recipient has a session in the room of its
\* conversation.
C23_NoneUndeliveredWhileSubscribed ==
  tasks = {} =>
    \A i \in DOMAIN messages :
      ~messages[i].cm_is_delivered
        => SessionsIn(messages[i].cc_id,
                      OtherUser(messages[i].cc_id, messages[i].sender_user_id)) = {}

C25_CounterMatchesUnread ==
  tasks = {} =>
    \A c \in DOMAIN convs :
      \A u \in {convs[c].recruiter_user_id, convs[c].talent_user_id} :
        UnreadOf(convs[c], u) =
          Cardinality({i \in DOMAIN messages : /\ messages[i].cc_id = c
                                               /\ messages[i].sender_user_id # u
                                               /\ ~messages[i].cm_is_read})

\* C26 (as stated): a send that has marked its message Delivered fans it
\* out to at least one session of the recipient: the new_message it emits
\* after the delivered update reaches a session of the recipient.
C26_DeliveredReachesRecipient ==
  [][\A T \in tasks :
       Took(T, "send", "s_emit") /\ messages[T.cm_id].cm_is_delivered
         => \E e \in emitted' :
              /\ e.ev = "new_message" /\ e.cm_id = T.cm_id
              /\ \E s \in e.to : Owner(s) = OtherUser(T.conv, T.user)]_vars

\* C27 (as stated): no step of a join_conversation, a mark_as_delivered or
\* a mark_as_read changes the delivered timestamp of a message that has one.
C27_DeliveredAtKept ==
  [][\A T \in tasks :
       T.kind \in {"join", "delivered", "read"} /\ Took(T, T.kind, T.pc)
         => \A i \in DOMAIN messages :
              messages[i].cm_delivered_at # Null
                => messages'[i].cm_delivered_at = messages[i].cm_delivered_at]_vars

\* C28 (as stated): a typing or stop_typing indicator reaches a session
\* only when the user who emitted it is a participant of the conversation
\* whose room it was sent to; one emitted by anybody else reaches no one.
C28_TypingOnlyFromParticipants ==
  [][\A e \in emitted' :
       e.ev \in TypingEvents /\ e.to # {}
         => \E c \in DOMAIN convs :
              /\ ToStr(e.conversationId) = IntToStr(c)
              /\ e.userId \in {convs[c].recruiter_user_id, convs[c].talent_user_id}]_vars

\* the payloads that name a conversation of the recruiter and the talent
ForeignPayloads == {p \in AnyConvPayloads : ParseInt(p) \in DOMAIN convs}

\* the events by which a bulk update announces itself
MarkEvents == {"messages_read", "messages_delivered",
               "messages_marked_read", "messages_marked_delivered"}

\* C29: a mark_as_read or mark_as_delivered by a user who is not a
\* participant of the conversation it names ends at once: it starts no
\* update, changes no message and no counter and emits none of the events
\* of a bulk update; every update that runs belongs to a participant of
\* its conversation, and every messages_read and messages_delivered is
\* about a conversation of the user who caused it.
C29_ForeignMarkHasNoEffect ==
  [][/\ \A s \in {t \in connected : Owner(t) = Outsider}, p \in ForeignPayloads,
          ok \in BOOLEAN :
          DeliveredStart(s, p, ok) \/ ReadStart(s, p, ok)
            => /\ tasks' = tasks /\ messages' = messages /\ convs' = convs
               /\ \A e \in emitted' : e.ev \notin MarkEvents /\ e.to \subseteq {s}
     /\ \A T \in tasks' :
          T.kind \in {"read", "delivered"}
            => T.user \in {convs[T.conv].recruiter_user_id, convs[T.conv].talent_user_id}
     /\ \A e \in emitted' :
          e.ev \in MarkEvents
            => e.user \in {convs[e.conv].recruiter_user_id, convs[e.conv].talent_user_id}]_vars

\* a bulk update asked for by the outsider has just ended with a log line:
\* the message of the conversation is still neither delivered nor read and
\* still counted
C29_Witness ==
  \E s \in connected, i \in DOMAIN messages :
    /\ Owner(s) = Outsider
    /\ emitted = {LogError} /\ tasks = {}
    /\ ~messages[i].cm_is_delivered /\ ~messages[i].cm_is_read
    /\ UnreadOf(convs[messages[i].cc_id],
                OtherUser(messages[i].cc_id, messages[i].sender_user_id)) = 1

\* C30: a session that joined the conversation with a conversationId that
\* join_conversation accepts, and then emits leave_conversation with the
\* same value, is no longer in the room of that conversation (the room
\* new_message is sent to and the send looks the recipient up in).
C30_LeaveUnsubscribes ==
  [][\A s \in connected :
       (/\ ~Falsy(ClientId(s)) /\ ParseInt(ClientId(s)) # NaN
        /\ LeaveConversation(s, ClientId(s)))
         => <<s, ConvRoom(IntToStr(ParseInt(ClientId(s))))>> \notin rooms']_vars

====
